---- MODULE Spec2Model ----
(***************************************************************************)
(* A model of src/main.py: the two product-search tool adapters            *)
(* (search_products_v1, search_products_v3), the tool registry built by    *)
(* create_agent, and the chat loop of main with its bounded chat history.  *)
(*                                                                         *)
(* Text is modelled as a sequence of one-character strings, so that        *)
(* str.strip and str.lower act on characters; longer literals of the       *)
(* source appear as single chunks of such a sequence.                      *)
(***************************************************************************)
EXTENDS Integers, Sequences, FiniteSets, TLC

\* ------------------------------------------------------------------ bounds

\* Completed turns of the long session (enough to overflow the history cap).
MaxTurns == 11

\* Completed turns of the session with varied inputs.
VariedTurns == 2

\* Turns whose Planner call returned but whose output could not be printed.
MaxUnprinted == 1

\* ------------------------------------------------------- program constants

\* main.py:239-240, the history cap.
MaxHistory == 20

\* main.py:56, the only status treated as success.
HttpOk == 200

\* ------------------------------------------------------------------- text

Whitespace == {" ", "\t"}

UpperLetters == <<"Q", "U", "I", "T", "E", "X", "B", "Y", "H">>

LowerLetters == <<"q", "u", "i", "t", "e", "x", "b", "y", "h">>

\* str.lower on one character.
LowerChar(c) ==
  IF \E i \in 1..Len(UpperLetters) : UpperLetters[i] = c
  THEN LowerLetters[CHOOSE i \in 1..Len(UpperLetters) : UpperLetters[i] = c]
  ELSE c

\* A variant of Lower that leaves the case as typed.
LowerIdentity(s) == s

\* str.lower, main.py:216.
Lower(s) == [i \in 1..Len(s) |-> LowerChar(s[i])]

RECURSIVE LStrip(_)
LStrip(s) ==
  IF s # <<>> /\ Head(s) \in Whitespace THEN LStrip(Tail(s)) ELSE s

RECURSIVE RStrip(_)
RStrip(s) ==
  IF s # <<>> /\ s[Len(s)] \in Whitespace
  THEN RStrip(SubSeq(s, 1, Len(s) - 1))
  ELSE s

\* A variant of Strip that keeps the surrounding whitespace.
StripNothing(s) == s

\* str.strip, main.py:211.
Strip(s) == RStrip(LStrip(s))

\* main.py:216, the exit keywords.
ExitKeywords ==
  { <<"q", "u", "i", "t">>, <<"e", "x", "i", "t">>, <<"b", "y", "e">> }

DigitChars == <<"0", "1", "2", "3", "4", "5", "6", "7", "8", "9">>

\* str(int) of a non-negative integer, as the f-strings of main.py:60 format it.
RECURSIVE Digits(_)
Digits(n) ==
  IF n < 10 THEN <<DigitChars[n + 1]>>
  ELSE Digits(n \div 10) \o <<DigitChars[(n % 10) + 1]>>

Min(a, b) == IF a < b THEN a ELSE b

\* s[-n:] for 0 < n <= len(s), main.py:240.
LastN(s, n) == SubSeq(s, Len(s) - n + 1, Len(s))

\* ----------------------------------------------------- the remote search API

\* The JSON documents the remote API may answer with (opaque to the program).
JsonBodies == { [results |-> <<>>], [results |-> <<"laptop">>] }

\* What requests.post may do: answer with a status and a body, or raise.
HttpOutcomes ==
  { [kind |-> "response", status |-> HttpOk, parses |-> TRUE, data |-> d] :
      d \in JsonBodies }
  \cup
  { [kind |-> "response", status |-> HttpOk, parses |-> FALSE,
     data |-> [results |-> <<>>]] }
  \cup
  { [kind |-> "response", status |-> s, parses |-> p,
     data |-> [results |-> <<>>]] : s \in {404, 503}, p \in BOOLEAN }
  \cup
  { [kind |-> "raise", exc |-> e] : e \in {"Timeout", "ConnectionError"} }

RECURSIVE DumpItems(_)
DumpItems(items) ==
  IF items = <<>> THEN <<>>
  ELSE <<"\n    \"", Head(items), "\"">>
       \o (IF Tail(items) = <<>> THEN <<>> ELSE <<",">>)
       \o DumpItems(Tail(items))

\* json.dumps(data, indent=2), main.py:58.
JsonDumps(data) ==
  <<"{", "\n  \"results\": ">>
  \o (IF data.results = <<>> THEN <<"[]">>
      ELSE <<"[">> \o DumpItems(data.results) \o <<"\n  ]">>)
  \o <<"\n", "}">>

Returned(text) == [kind |-> "return", type |-> "str", value |-> text]

Raised(e) == [kind |-> "raise", exc |-> e]

\* The body of the try block of an adapter, main.py:41-60 and 85-108:
\* requests.post, then the status test, response.json() and json.dumps.
TryPost(version, http) ==
  IF http.kind = "raise" THEN Raised(http.exc)
  ELSE IF http.status = HttpOk
       THEN IF http.parses THEN Returned(JsonDumps(http.data))
            ELSE Raised("JSONDecodeError")
       ELSE Returned(<<"Error: API ", version, " returned status code ">>
                     \o Digits(http.status))

\* except Exception as e, main.py:62-63 and 110-111.
CatchAll(version, r) ==
  IF r.kind = "raise"
  THEN Returned(<<"Error calling API ", version, ": ", r.exc>>)
  ELSE r

\* main.py:42-45.
PayloadV1(query, category) == [query |-> query, category |-> category]

NoneValue == [some |-> FALSE]

Some(b) == [some |-> TRUE, val |-> b]

\* A variant of PayloadV3 that tests "if in_stock:" instead.
PayloadV3Truthy(query, category, in_stock) ==
  IF in_stock.some /\ in_stock.val
  THEN [query |-> query, category |-> category, in_stock |-> in_stock.val]
  ELSE [query |-> query, category |-> category]

\* main.py:86-93: in_stock is added only when it is not None.
PayloadV3(query, category, in_stock) ==
  IF in_stock # NoneValue
  THEN [query |-> query, category |-> category, in_stock |-> in_stock.val]
  ELSE [query |-> query, category |-> category]

\* A variant of search_products_v1 without its except clause.
search_products_v1_uncaught(query, category, http) == TryPost("v1", http)

\* main.py:29-63.
search_products_v1(query, category, http) ==
  CatchAll("v1", TryPost("v1", http))

\* main.py:72-111.
search_products_v3(query, category, in_stock, http) ==
  CatchAll("v3", TryPost("v3", http))

\* ------------------------------------------------------------ the session

VARIABLES
  env,            \* the process environment after load_dotenv(), main.py:21
  v3_defined,     \* whether lines 71-111 (Tool 2) are uncommented in the file
  operator,       \* what the operator types in this session
  pc,             \* where main is: start, create, read, invoke, respond, done
  status,         \* running, returned (main returned) or uncaught
  out,            \* the last message main printed
  raised,         \* the exception raised by the last step, "none" otherwise
  agent_executor, \* main.py:198
  chat_history,   \* main.py:205
  line,           \* what input() returned in the current iteration, main.py:211
  user_input,     \* main.py:211, the stripped line of the turn in progress
  response,       \* main.py:224, what agent_executor.invoke returned
  tool_call,      \* the adapter call last made, with its request and result
  log,            \* history: every turn ever appended to chat_history, in order
  completed,      \* history: turns that ran to the end of the try block
  returned,       \* history: calls of agent_executor.invoke that returned
  calls,          \* history: the (input, response) pairs of those calls
  create_called,  \* history: create_agent was called
  input_read,     \* history: input() was called
  invoked         \* history: agent_executor.invoke was called

vars ==
  << env, v3_defined, operator, pc, status, out, raised, agent_executor,
     chat_history, line, user_input, response, tool_call, log, completed,
     returned, calls, create_called, input_read, invoked >>

KeyName == "ANTHROPIC_API_KEY"

\* The environments main may find: the key unset, set to "", or set.
Environments ==
  { [k \in {} |-> ""], [k \in {KeyName} |-> ""], [k \in {KeyName} |-> "sk-ant-key"] }

\* A variant of HasCredential that tests "is not None" instead.
HasCredentialNotNone(e) == KeyName \in DOMAIN e

\* main.py:191, the truth value of os.environ.get("ANTHROPIC_API_KEY").
HasCredential(e) == KeyName \in DOMAIN e /\ e[KeyName] # ""

\* The module-level names bound by @tool definitions, main.py:28-29 and
\* 71-72. The file as it stands has Tool 2 commented out (v3_defined =
\* FALSE); its instructions (main.py:5-8, 66-69) have the operator
\* uncomment it for the second run (v3_defined = TRUE).
DefinedTools(v3) ==
  IF v3 THEN {"search_products_v1", "search_products_v3"}
  ELSE {"search_products_v1"}

\* main.py:127-130, the tools list as written in the file.
ToolsList == <<"search_products_v1", "search_products_v3">>

\* main.py:114-173. Evaluating the tools list looks each name up; a name
\* that is not bound raises NameError.
create_agent(v3) ==
  IF \A i \in 1..Len(ToolsList) : ToolsList[i] \in DefinedTools(v3)
  THEN [kind |-> "return", tools |-> ToolsList]
  ELSE Raised("NameError")

NoAgent == [tools |-> <<>>]

NoLine == [read |-> FALSE, text |-> <<>>]

NoResponse == [absent |-> TRUE]

NoCall == [tool |-> "none"]

\* main.py:231, the default of response.get.
DefaultOutput == <<"I encountered an error processing your request.">>

\* What the operator may type: blank lines, exit keywords in several cases
\* and with surrounding whitespace, and other text.
VariedInputs ==
  { <<>>, <<" ">>, <<"\t", " ">>,
    <<"q", "u", "i", "t">>, <<"Q", "U", "I", "T">>, <<"E", "x", "i", "t">>,
    <<" ", "b", "y", "e", " ">>, <<"B", "Y", "E">>,
    <<"h", "i">>, <<" ", "H", "i", "\t">>, <<"q", "u", "i", "t", "s">> }

SteadyInputs == { <<>>, <<"h", "i">>, <<"q", "u", "i", "t">> }

Operators ==
  { [inputs |-> VariedInputs, turns |-> VariedTurns],
    [inputs |-> SteadyInputs, turns |-> MaxTurns] }

\* What agent_executor.invoke may return for an input: a mapping that
\* echoes the input and normally holds "output".
Responses(u) == { [input |-> u, output |-> <<"o", "k">>], [input |-> u] }

\* What the Planner may pass to a tool.
Queries == { <<"laptops">>, <<"chair">> }

Categories == { <<>>, <<"electronics">> }

StockFilters == { NoneValue, Some(TRUE), Some(FALSE) }

\* Exception classes below Exception; KeyboardInterrupt is not one.
ExceptionClasses ==
  { "EOFError", "APIError", "UnicodeEncodeError", "NameError",
    "Timeout", "ConnectionError", "JSONDecodeError" }

\* A variant of Except whose Exception clause ends in break.
ExceptBreaksOnError(exc) ==
  IF exc = "KeyboardInterrupt"
  THEN [pc |-> "done", out |-> "demo_ended", status |-> "returned"]
  ELSE IF exc \in ExceptionClasses
       THEN [pc |-> "done", out |-> "error", status |-> "returned"]
       ELSE [pc |-> "done", out |-> "traceback", status |-> "uncaught"]

\* A variant of Except without the KeyboardInterrupt clause.
ExceptWithoutInterruptClause(exc) ==
  IF exc \in ExceptionClasses
  THEN [pc |-> "read", out |-> "error", status |-> "running"]
  ELSE [pc |-> "done", out |-> "traceback", status |-> "uncaught"]

\* main.py:242-247, the except clauses of the loop body. The messages of
\* lines 243 and 246 are taken to print: the terminal took the banner of
\* lines 178-188, and str(e) of an encoding error is plain text.
Except(exc) ==
  IF exc = "KeyboardInterrupt"
  THEN [pc |-> "done", out |-> "demo_ended", status |-> "returned"]
  ELSE IF exc \in ExceptionClasses
       THEN [pc |-> "read", out |-> "error", status |-> "running"]
       ELSE [pc |-> "done", out |-> "traceback", status |-> "uncaught"]

\* main.py:231.
GetOutput(r) == IF "output" \in DOMAIN r THEN r.output ELSE DefaultOutput

\* A variant of AppendExchange that appends the ai turn first.
AppendExchangeSwapped(h, u, o) == Append(Append(h, <<"ai", o>>), <<"human", u>>)

\* main.py:235-236.
AppendExchange(h, u, o) == Append(Append(h, <<"human", u>>), <<"ai", o>>)

\* A variant of Truncate that keeps chat_history[:20].
TruncateKeepOldest(h) ==
  IF Len(h) > MaxHistory THEN SubSeq(h, 1, MaxHistory) ELSE h

\* main.py:239-240.
Truncate(h) == IF Len(h) > MaxHistory THEN LastN(h, MaxHistory) ELSE h

Init ==
  /\ env \in Environments
  /\ v3_defined \in BOOLEAN
  /\ operator \in Operators
  /\ pc = "start"
  /\ status = "running"
  /\ out = "nothing"
  /\ raised = "none"
  /\ agent_executor = NoAgent
  /\ chat_history = <<>>
  /\ line = NoLine
  /\ user_input = <<>>
  /\ response = NoResponse
  /\ tool_call = NoCall
  /\ log = <<>>
  /\ completed = 0
  /\ returned = 0
  /\ calls = {}
  /\ create_called = FALSE
  /\ input_read = FALSE
  /\ invoked = FALSE

\* main.py:178-194: the banner, then the credential check.
CheckCredential ==
  /\ pc = "start"
  /\ IF HasCredential(env)
     THEN /\ pc' = "create"
          /\ out' = "banner"
          /\ status' = "running"
     ELSE /\ pc' = "done"
          /\ out' = "guidance"
          /\ status' = "returned"
  /\ UNCHANGED << env, v3_defined, operator, raised, agent_executor,
                  chat_history, line, user_input, response, tool_call, log,
                  completed, returned, calls, create_called, input_read,
                  invoked >>

\* main.py:197-205: create_agent under try/except Exception, then the
\* empty chat history.
CreateAgent ==
  /\ pc = "create"
  /\ create_called' = TRUE
  /\ LET r == create_agent(v3_defined) IN
       IF r.kind = "raise"
       THEN /\ raised' = r.exc
            /\ out' = "create_error"
            /\ pc' = "done"
            /\ status' = "returned"
            /\ UNCHANGED << agent_executor, chat_history >>
       ELSE /\ raised' = "none"
            /\ agent_executor' = [tools |-> r.tools]
            /\ out' = "initialized"
            /\ chat_history' = <<>>
            /\ pc' = "read"
            /\ status' = "running"
  /\ UNCHANGED << env, v3_defined, operator, line, user_input, response,
                  tool_call, log, completed, returned, calls, input_read,
                  invoked >>

\* The frame of the turn in progress is left: by an exception, or at the
\* end of the loop body.
LeaveTurn ==
  /\ line' = NoLine
  /\ user_input' = <<>>
  /\ response' = NoResponse

\* An exception raised inside the try block of the loop, main.py:209-247.
Unwind(exc) ==
  /\ raised' = exc
  /\ pc' = Except(exc).pc
  /\ out' = Except(exc).out
  /\ status' = Except(exc).status
  /\ LeaveTurn

\* main.py:211-222: input() returns a line; the blank-line test, the exit
\* keywords, and otherwise the banner that precedes the Planner call.
ReadInput ==
  /\ pc = "read"
  /\ \E raw \in operator.inputs :
       LET u == Strip(raw) IN
         /\ line' = [read |-> TRUE, text |-> raw]
         /\ user_input' = u
         /\ IF u = <<>>
            THEN /\ pc' = "read"
                 /\ UNCHANGED << out, status, invoked >>
            ELSE IF Lower(u) \in ExitKeywords
                 THEN /\ pc' = "done"
                      /\ out' = "thanks"
                      /\ status' = "returned"
                      /\ UNCHANGED invoked
                 ELSE /\ pc' = "invoke"
                      /\ out' = "agent_banner"
                      /\ invoked' = TRUE
                      /\ UNCHANGED status
  /\ input_read' = TRUE
  /\ raised' = "none"
  /\ UNCHANGED << env, v3_defined, operator, agent_executor, chat_history,
                  response, tool_call, log, completed, returned, calls,
                  create_called >>

\* main.py:211: input() raises (end of input, or the operator's interrupt).
InputRaises ==
  /\ pc = "read"
  /\ \E exc \in {"EOFError", "KeyboardInterrupt"} : Unwind(exc)
  /\ input_read' = TRUE
  /\ UNCHANGED << env, v3_defined, operator, agent_executor, chat_history,
                  tool_call, log, completed, returned, calls, create_called,
                  invoked >>

\* One of the registered tools, called by name.
CallTool(name, query, category, in_stock, http) ==
  IF name = "search_products_v1"
  THEN search_products_v1(query, category, http)
  ELSE search_products_v3(query, category, in_stock, http)

\* The stock filters a tool can be given: v1 has no in_stock parameter.
ToolStockFilters(name) ==
  IF name = "search_products_v1" THEN {NoneValue} ELSE StockFilters

\* main.py:224, inside agent_executor.invoke: the Planner calls one of the
\* registered tools, searching all categories for the operator's text. The
\* result goes back to the Planner; an exception of the tool would leave
\* invoke.
ToolCall ==
  /\ pc = "invoke"
  /\ \E i \in 1..Len(agent_executor.tools), http \in HttpOutcomes :
     \E s \in ToolStockFilters(agent_executor.tools[i]) :
       LET r == CallTool(agent_executor.tools[i], user_input, <<>>, s, http) IN
         IF r.kind = "raise"
         THEN Unwind(r.exc)
         ELSE /\ out' = "tool_trace"
              /\ raised' = "none"
              /\ UNCHANGED << pc, status, line, user_input, response >>
  /\ UNCHANGED << env, v3_defined, operator, agent_executor, chat_history,
                  tool_call, log, completed, returned, calls, create_called,
                  input_read, invoked >>

\* main.py:224-227: agent_executor.invoke returns (in the model, only
\* while the session has turns left).
PlannerReturns ==
  /\ pc = "invoke"
  /\ completed < operator.turns
  /\ \E r \in Responses(user_input) :
       /\ response' = r
       /\ calls' = calls \cup {<<user_input, r>>}
  /\ returned' = returned + 1
  /\ pc' = "respond"
  /\ out' = "finished_chain"
  /\ raised' = "none"
  /\ UNCHANGED << env, v3_defined, operator, status, agent_executor,
                  chat_history, line, user_input, tool_call, log, completed,
                  create_called, input_read, invoked >>

\* main.py:224: agent_executor.invoke raises (a fault of the Planner, or
\* the operator's interrupt while it runs).
PlannerRaises ==
  /\ pc = "invoke"
  /\ \E exc \in {"APIError", "KeyboardInterrupt"} : Unwind(exc)
  /\ UNCHANGED << env, v3_defined, operator, agent_executor, chat_history,
                  tool_call, log, completed, returned, calls, create_called,
                  input_read, invoked >>

\* main.py:230-240: the output is printed, both turns are appended and
\* the history is cut to its cap.
FinishTurn ==
  /\ pc = "respond"
  /\ LET o == GetOutput(response) IN
       /\ chat_history' = Truncate(AppendExchange(chat_history, user_input, o))
       /\ log' = log \o << <<"human", user_input>>, <<"ai", o>> >>
  /\ completed' = completed + 1
  /\ out' = "output"
  /\ raised' = "none"
  /\ pc' = "read"
  /\ LeaveTurn
  /\ UNCHANGED << env, v3_defined, operator, status, agent_executor,
                  tool_call, returned, calls, create_called, input_read,
                  invoked >>

\* main.py:230-232: printing the output raises (output text the terminal
\* cannot encode, such as an unpaired surrogate, or the operator's
\* interrupt). Nothing has been appended yet.
PrintRaises ==
  /\ pc = "respond"
  /\ \E exc \in {"UnicodeEncodeError", "KeyboardInterrupt"} :
       /\ exc # "KeyboardInterrupt" => returned - completed <= MaxUnprinted
       /\ Unwind(exc)
  /\ UNCHANGED << env, v3_defined, operator, agent_executor, chat_history,
                  tool_call, log, completed, returned, calls, create_called,
                  input_read, invoked >>

Next ==
  \/ CheckCredential
  \/ CreateAgent
  \/ ReadInput
  \/ InputRaises
  \/ ToolCall
  \/ PlannerReturns
  \/ PlannerRaises
  \/ FinishTurn
  \/ PrintRaises

Spec == Init /\ [][Next]_vars

\* ------------------------------------------------- the adapters on their own

\* The adapters called directly, with every argument and HTTP outcome.
InitAdapters ==
  /\ env = [k \in {KeyName} |-> "sk-ant-key"]
  /\ v3_defined = TRUE
  /\ operator = [inputs |-> SteadyInputs, turns |-> 0]
  /\ pc = "adapters"
  /\ status = "running"
  /\ out = "nothing"
  /\ raised = "none"
  /\ agent_executor = NoAgent
  /\ chat_history = <<>>
  /\ line = NoLine
  /\ user_input = <<>>
  /\ response = NoResponse
  /\ tool_call = NoCall
  /\ log = <<>>
  /\ completed = 0
  /\ returned = 0
  /\ calls = {}
  /\ create_called = FALSE
  /\ input_read = FALSE
  /\ invoked = FALSE

\* main.py:29-63, one call of search_products_v1.
InvokeV1 ==
  /\ pc = "adapters"
  /\ \E q \in Queries, c \in Categories, http \in HttpOutcomes :
       tool_call' = [tool |-> "search_products_v1", query |-> q,
                     category |-> c, in_stock |-> NoneValue, http |-> http,
                     payload |-> PayloadV1(q, c),
                     result |-> search_products_v1(q, c, http)]
  /\ UNCHANGED << env, v3_defined, operator, pc, status, out, raised,
                  agent_executor, chat_history, line, user_input, response,
                  log, completed, returned, calls, create_called, input_read,
                  invoked >>

\* main.py:72-111, one call of search_products_v3.
InvokeV3 ==
  /\ pc = "adapters"
  /\ v3_defined
  /\ \E q \in Queries, c \in Categories, s \in StockFilters,
        http \in HttpOutcomes :
       tool_call' = [tool |-> "search_products_v3", query |-> q,
                     category |-> c, in_stock |-> s, http |-> http,
                     payload |-> PayloadV3(q, c, s),
                     result |-> search_products_v3(q, c, s, http)]
  /\ UNCHANGED << env, v3_defined, operator, pc, status, out, raised,
                  agent_executor, chat_history, line, user_input, response,
                  log, completed, returned, calls, create_called, input_read,
                  invoked >>

NextAdapters == InvokeV1 \/ InvokeV3

SpecAdapters == InitAdapters /\ [][NextAdapters]_vars

\* ------------------------------------------------------------- properties

\* main returned from create_agent and entered the chat loop.
LoopStarted == agent_executor # NoAgent

CredentialPresent == KeyName \in DOMAIN env /\ env[KeyName] # ""

AllWhitespace(s) == \A i \in 1..Len(s) : s[i] \in Whitespace

\* a is b, or b written in upper case.
SameLetter(a, b) ==
  a = b \/ \E j \in 1..Len(UpperLetters) : UpperLetters[j] = a /\ LowerLetters[j] = b

ClaimedKeywords ==
  { <<"q", "u", "i", "t">>, <<"e", "x", "i", "t">>, <<"b", "y", "e">> }

\* s is "quit", "exit" or "bye" in some letter case.
IsExitWord(s) ==
  \E kw \in ClaimedKeywords :
    Len(s) = Len(kw) /\ \A i \in 1..Len(s) : SameLetter(s[i], kw[i])

\* raw is an exit word with nothing but whitespace around it.
EnteredExitWord(raw) ==
  \E i \in 1..Len(raw), j \in 1..Len(raw) :
    /\ i <= j
    /\ IsExitWord(SubSeq(raw, i, j))
    /\ AllWhitespace(SubSeq(raw, 1, i - 1))
    /\ AllWhitespace(SubSeq(raw, j + 1, Len(raw)))

Contains(text, sub) ==
  \E i \in 1..(Len(text) - Len(sub) + 1) : SubSeq(text, i, i + Len(sub) - 1) = sub

StatusText == (404 :> <<"4", "0", "4">>) @@ (503 :> <<"5", "0", "3">>)

C2_CredentialSuffices ==
  (CredentialPresent /\ create_called) =>
    /\ \A i \in 1..Len(ToolsList) : ToolsList[i] \in DefinedTools(v3_defined)
    /\ LoopStarted
    /\ agent_executor.tools = ToolsList

\* C3: a call of a search adapter returns a string whatever requests.post
\* does, and for a status other than 200 the string holds the status code.
C3_AdapterNeverRaises ==
  tool_call # NoCall =>
    /\ tool_call.result.kind = "return"
    /\ tool_call.result.type = "str"
    /\ tool_call.result.value \in Seq(STRING)
    /\ (tool_call.http.kind = "response" /\ tool_call.http.status # 200)
         => Contains(tool_call.result.value, StatusText[tool_call.http.status])

\* C3 witness: v1 was called and the API answered 404.
C3_Witness ==
  /\ tool_call # NoCall
  /\ tool_call.tool = "search_products_v1"
  /\ tool_call.http.kind = "response"
  /\ tool_call.http.status = 404
  /\ tool_call.result.kind = "return"

\* C4: the body v3 sends always holds query and category, and holds
\* in_stock exactly when in_stock was given, with the value given.
C4_V3Payload ==
  (tool_call # NoCall /\ tool_call.tool = "search_products_v3") =>
    LET p == tool_call.payload IN
      /\ {"query", "category"} \subseteq DOMAIN p
      /\ p.query = tool_call.query
      /\ p.category = tool_call.category
      /\ "in_stock" \in DOMAIN p <=> tool_call.in_stock.some
      /\ tool_call.in_stock.some => p.in_stock = tool_call.in_stock.val
      /\ ~tool_call.in_stock.some => DOMAIN p = {"query", "category"}

\* C4 witness: v3 was called with in_stock = False and sent it.
C4_Witness ==
  /\ tool_call # NoCall
  /\ tool_call.tool = "search_products_v3"
  /\ tool_call.in_stock = Some(FALSE)
  /\ "in_stock" \in DOMAIN tool_call.payload

\* C5: after an exception other than the operator's interrupt in a turn of
\* the loop, the error has been reported, main is still running and the
\* loop is about to read the next input.
C5_FaultContinues ==
  (LoopStarted /\ raised \notin {"none", "KeyboardInterrupt"}) =>
    /\ pc = "read"
    /\ out = "error"
    /\ status = "running"

\* C5 witness: printing the output failed in a session with history.
C5_Witness ==
  /\ LoopStarted
  /\ raised = "UnicodeEncodeError"
  /\ pc = "read"
  /\ chat_history # <<>>

\* C6: with the credential unset or empty, main prints the guidance and
\* returns; create_agent is never called, the Planner never invoked, and
\* input() never called.
C6_NoCredentialNoLoop ==
  ~CredentialPresent =>
    /\ ~create_called
    /\ ~input_read
    /\ ~invoked
    /\ ~LoopStarted
    /\ pc \in {"start", "done"}
    /\ pc = "done" => (out = "guidance" /\ status = "returned")

\* C6 witness: the key is set to the empty string and main has returned.
C6_Witness ==
  /\ KeyName \in DOMAIN env
  /\ env[KeyName] = ""
  /\ pc = "done"

\* C7: a step that reads a line holding nothing but whitespace does not
\* invoke the Planner, leaves chat_history as it was, and goes on to read
\* the next line.
C7_EmptyInputIgnored ==
  [][ (pc = "read" /\ line'.read /\ AllWhitespace(line'.text)) =>
        /\ pc' = "read"
        /\ chat_history' = chat_history
        /\ log' = log
        /\ invoked' = invoked
        /\ returned' = returned
        /\ status' = status ]_vars

\* C7 witness: a line of whitespace was read after a completed turn.
C7_Witness ==
  /\ pc = "read"
  /\ line.read
  /\ line.text # <<>>
  /\ AllWhitespace(line.text)
  /\ chat_history # <<>>

\* C8: a step that reads "quit", "exit" or "bye" in any letter case ends
\* the loop in that step, without invoking the Planner and without
\* appending to chat_history.
C8_ExitKeywordEndsLoop ==
  [][ (pc = "read" /\ line'.read /\ IsExitWord(line'.text)) =>
        /\ pc' = "done"
        /\ out' = "thanks"
        /\ status' = "returned"
        /\ chat_history' = chat_history
        /\ log' = log
        /\ invoked' = invoked
        /\ returned' = returned ]_vars

\* C8 witness: "QUIT" ended a session that had history.
C8_Witness ==
  /\ pc = "done"
  /\ line.read
  /\ line.text = <<"Q", "U", "I", "T">>
  /\ chat_history # <<>>

\* C9: once the loop has started it ends exactly on an exit keyword or on
\* the operator's interrupt, in both cases with a farewell and by main
\* returning.
C9_TerminationCauses ==
  LoopStarted =>
    /\ pc = "done" =>
         /\ status = "returned"
         /\ \/ raised = "none" /\ line.read /\ EnteredExitWord(line.text)
                /\ out = "thanks"
            \/ raised = "KeyboardInterrupt" /\ out = "demo_ended"
    /\ raised = "KeyboardInterrupt" => pc = "done"
    /\ (line.read /\ EnteredExitWord(line.text)) => pc = "done"

\* C9 witness: the operator interrupted a session in which the Planner had
\* been invoked.
C9_Witness ==
  /\ LoopStarted
  /\ pc = "done"
  /\ raised = "KeyboardInterrupt"
  /\ invoked

\* The history is a sequence of whole exchanges: a human turn, then the
\* output of a Planner call made with that turn's text.
WholeExchanges(h) ==
  /\ Len(h) % 2 = 0
  /\ \A i \in 1..Len(h) :
       IF i % 2 = 1
       THEN h[i][1] = "human"
       ELSE /\ h[i][1] = "ai"
            /\ \E c \in calls :
                 /\ c[1] = h[i - 1][2]
                 /\ h[i][2] = IF "output" \in DOMAIN c[2] THEN c[2].output
                              ELSE DefaultOutput

\* C10: whenever the loop is about to read input, chat_history is a
\* sequence of whole exchanges, also after it was cut to 20 entries; and a
\* step in which an exception is raised leaves chat_history as it was.
C10_WholeExchanges ==
  /\ [](pc = "read" => WholeExchanges(chat_history))
  /\ [][raised' # "none" => chat_history' = chat_history]_vars

\* C10 witness: the Planner call failed after the history had been cut.
C10_Witness ==
  /\ pc = "read"
  /\ raised = "APIError"
  /\ Len(log) > 20
  /\ Len(chat_history) = 20

====
